---- MODULE Spec2Model ----
(***************************************************************************)
(* Archive-then-replace upsert pipeline of the CPT automation scripts.     *)
(*                                                                         *)
(* Four handler classes (Fair Health Facility, Fair Health Physicians,     *)
(* Medicare Clinical Fees, New Jersey DOBI) share three remote tables and  *)
(* run the same sequence in insert_records: select the live rows of the    *)
(* handler's data_types, copy them (without 'id') to the historical table, *)
(* delete them from the live table, insert the new records, log.           *)
(*                                                                         *)
(* The remote store is modelled as a table service whose calls are atomic: *)
(* a call either takes effect and returns, or raises and changes nothing.  *)
(***************************************************************************)
EXTENDS Integers, Sequences, FiniteSets, TLC

\* ---------------------------------------------------------------- bounds

\* New records handed to insert_records in one behaviour, over all its runs.
MaxRows == 2

\* Store failures, log-sink failures and process crashes in one behaviour.
MaxFaults == 2

\* ---------------------------------------------------------- configuration

Handlers == {"Facility", "Physician", "CLFS", "DOBI"}

updated_table == "updated_medical_benchmarking_data"

historical_table == "historical_medical_benchmarking_data"

logging_table == "logging_table"

script_name(h) ==
    CASE h = "Facility"  -> "Fairhealth Facility"
      [] h = "Physician" -> "Fairhealth Physician"
      [] h = "CLFS"      -> "Medicare Clinical Fees"
      [] h = "DOBI"      -> "New Jersey DOBI"

\* Variant: the Physician handler lists a tag of the Facility handler.
data_types_Shared(h) ==
    CASE h = "Facility"  -> <<"Facility USA", "Facility 070", "Facility 074">>
      [] h = "Physician" -> <<"Physician USA", "Facility 070">>
      [] h = "CLFS"      -> <<"Medicare Lab">>
      [] h = "DOBI"      -> <<"Facility PIP", "Physician PIP">>

\* self.data_types (self.data_type of the CLFS handler as a one-element list)
data_types(h) ==
    CASE h = "Facility"  -> <<"Facility USA", "Facility 070", "Facility 074">>
      [] h = "Physician" -> <<"Physician USA", "Physician 070">>
      [] h = "CLFS"      -> <<"Medicare Lab">>
      [] h = "DOBI"      -> <<"Facility PIP", "Physician PIP">>

\* The tag the Medicare ASC processor stamps on its rows: a row of the shared
\* live table that none of the four handlers owns.
asc_data_type == "Medicare Facility"

Range(s) == {s[i] : i \in DOMAIN s}

\* Variant: the filter compares with one data_type only (.eq on the first).
InScope_FirstTypeOnly(h, r) == r.data_type = data_types(h)[1]

\* The filter of the select and of the delete: .in_("data_type", data_types),
\* and .eq("data_type", data_type) in the CLFS handler.
InScope(h, r) == r.data_type \in Range(data_types(h))

\* ----------------------------------------------------------------- records

Codes == {"c1"}

\* A record of the record source: no 'id' yet, tagged inside the scope.
NewRecords(h) == [data_type : Range(data_types(h)), code : Codes]

SeqsUpTo(S, n) == UNION {[1..k -> S] : k \in 0..n}

\* The lists of at most n new records.
Batches(h, n) == SeqsUpTo(NewRecords(h), n)

\* Variant: the historical record keeps the 'id' of its source row.
StripId_KeepsId(record) == record

\* {k: v for k, v in record.items() if k != 'id'}
StripId(record) == [k \in (DOMAIN record) \ {"id"} |-> record[k]]

\* The row the live table stores for a record: the table assigns the id.
WithId(record, i) ==
    [k \in (DOMAIN record) \cup {"id"} |-> IF k = "id" THEN i ELSE record[k]]

RECURSIVE SortById(_)
\* response.data of a select: the matching rows as a list (in id order).
SortById(rows) ==
    IF rows = {} THEN <<>>
    ELSE LET first == CHOOSE r \in rows : \A q \in rows : r.id <= q.id
         IN  <<first>> \o SortById(rows \ {first})

\* The list appended to by the loop over existing_records.
records_for_history(existing) == [i \in DOMAIN existing |-> StripId(existing[i])]

\* ------------------------------------------------------------------- state

Procs == {1, 2}

VARIABLES
    live,               \* rows of updated_medical_benchmarking_data
    historical,         \* rows of historical_medical_benchmarking_data, in insertion order
    log,                \* rows of logging_table, in insertion order
    nextId,             \* next id the live table assigns
    handler,            \* the handler class of each pipeline instance
    supabase_url,       \* SUPABASE_URL is set in the environment
    supabase_key,       \* SUPABASE_KEY is set in the environment
    client,             \* self.client of each instance
    init_raised,        \* the exception the constructor of each instance raised
    pc,                 \* where each instance is in insert_records
    records,            \* argument of the current or last call
    existing_records,   \* existing_response.data
    records_to_archive, \* len(existing_records)
    response,           \* response.data of the live insert
    error,              \* the exception caught by the except clause
    result,             \* the dict returned by the last call
    outcome,            \* how the last call ended
    raised,             \* the exception the last call raised
    failedAt,           \* the step whose store call raised in the current or last call
    calls,              \* the store calls issued by the current or last call, in order
    attempted,          \* the messages handed to _log_operation by the current or last call
    sinkFailed,         \* the log insert raised during the current or last call
    pre,                \* the tables when the current or last call started
    runs,               \* the finished non-empty runs, oldest first
    removed,            \* every row ever deleted from the live table
    nrows,              \* new records handed to insert_records so far
    nfaults             \* faults injected

store == <<live, historical, log, nextId>>

locals == <<records, existing_records, records_to_archive, response, error>>

ends == <<result, outcome, raised>>

ghosts == <<failedAt, calls, attempted, sinkFailed, pre, runs, removed, nrows, nfaults>>

config == <<supabase_url, supabase_key, client, init_raised>>

vars == <<store, handler, config, pc, locals, ends, ghosts>>

NoResult == [returned |-> FALSE]

\* A row of another instance already in the live table.
ForeignRow == [id |-> 1, data_type |-> asc_data_type, code |-> "c0"]

\* Rows of this instance's scope left by an earlier run: one of the first and
\* one of the last of its data_types.
OwnRows(h) ==
    {[id |-> 2, data_type |-> data_types(h)[1], code |-> "c0"],
     [id |-> 3, data_type |-> data_types(h)[Len(data_types(h))], code |-> "c0"]}

\* A row archived by an earlier deployment.
OldHistoricalRow(h) == [data_type |-> data_types(h)[1], code |-> "old"]

\* The environment the process starts with; no handler object exists yet.
NotConstructed ==
    /\ supabase_url \in BOOLEAN
    /\ supabase_key \in BOOLEAN
    /\ client = [p \in Procs |-> "none"]
    /\ init_raised = [p \in Procs |-> "none"]

Init ==
    /\ NotConstructed
    /\ \E h \in Handlers :
        /\ handler = [p \in Procs |-> h]
        /\ live \in {{ForeignRow}, {ForeignRow} \cup OwnRows(h)}
        /\ historical = <<OldHistoricalRow(h)>>
    /\ log = <<>>
    /\ nextId = 4
    /\ pc = [p \in Procs |-> "idle"]
    /\ records = [p \in Procs |-> <<>>]
    /\ existing_records = [p \in Procs |-> <<>>]
    /\ records_to_archive = [p \in Procs |-> 0]
    /\ response = [p \in Procs |-> <<>>]
    /\ error = [p \in Procs |-> "none"]
    /\ result = [p \in Procs |-> NoResult]
    /\ outcome = [p \in Procs |-> "none"]
    /\ raised = [p \in Procs |-> "none"]
    /\ failedAt = [p \in Procs |-> "none"]
    /\ calls = [p \in Procs |-> <<>>]
    /\ attempted = [p \in Procs |-> <<>>]
    /\ sinkFailed = [p \in Procs |-> FALSE]
    /\ pre = [p \in Procs |-> [live |-> live, historical |-> historical, log |-> log]]
    /\ runs = [p \in Procs |-> <<>>]
    /\ removed = {}
    /\ nrows = 0
    /\ nfaults = 0

\* ---------------------------------------------------- results and messages

\* The dict returned by the "if not records" branch.
NoRecordsResult(h) ==
    IF h \in {"Facility", "Physician"}
    THEN [status |-> "no_records", records_inserted |-> 0,
          table |-> updated_table, records_archived |-> 0]
    ELSE [status |-> "no_records", records_inserted |-> 0,
          table |-> updated_table, records_archived |-> 0, records_deleted |-> 0]

\* The dict returned after step 5.
SuccessResult(h, inserted, archived) ==
    CASE h = "Facility" ->
            [status |-> "success", records_inserted |-> inserted,
             records_archived |-> archived, table |-> updated_table]
      [] h = "Physician" ->
            [records_inserted |-> inserted, records_archived |-> archived,
             table |-> updated_table, success |-> TRUE]
      [] OTHER ->
            [status |-> "success", records_inserted |-> inserted,
             records_archived |-> archived, records_deleted |-> archived,
             table |-> updated_table, script_name |-> script_name(h)]

\* Variant: no early return.
EarlyReturn_Never(recs) == FALSE

\* "if not records": the early return of insert_records.
EarlyReturn(recs) == recs = <<>>

\* Variant: every handler reports the requested count.
InsertedCount_Requested(h, recs, data) == Len(recs)

\* The count reported as records_inserted: len(response.data) if response.data
\* else 0 (Facility, Physician); len(records) (CLFS, DOBI).
InsertedCount(h, recs, data) ==
    IF h \in {"Facility", "Physician"}
    THEN (IF data # <<>> THEN Len(data) ELSE 0)
    ELSE Len(recs)

\* Variant: the message names the archived count whatever it is.
_create_log_message_AlwaysArchived(h, archived_count, inserted_count) ==
    [words  |-> <<script_name(h), ":", "Archived", "{}", "old records",
                  "and inserted", "{}", "new records">>,
     counts |-> <<archived_count, inserted_count>>]

\* A message is its words in order (counts |-> the numbers formatted into it,
\* in order of appearance); the timestamp is left out.
_create_log_message(h, archived_count, inserted_count) ==
    IF archived_count > 0
    THEN [words  |-> <<script_name(h), ":", "Archived", "{}", "old records",
                       "and inserted", "{}", "new records">>,
          counts |-> <<archived_count, inserted_count>>]
    ELSE [words  |-> <<script_name(h), ":", "Inserted", "{}", "new records">>,
          counts |-> <<inserted_count>>]

\* The message the except clause hands to _log_operation; e is the class of
\* the exception caught ("APIError" or "Exception").
FailureMessage(h, e) ==
    CASE h = "Facility" /\ e = "APIError" ->
            [words |-> <<"Failed", ":", "API Error", ":", "{e.message}">>, counts |-> <<>>]
      [] h = "Facility" /\ e # "APIError" ->
            [words |-> <<"Failed", ":", "Unexpected Error", ":", "{e}">>, counts |-> <<>>]
      [] h = "Physician" ->
            [words |-> <<"FAILED", ":", "Failed", "to process", script_name(h), ":", "{e}">>,
             counts |-> <<>>]
      [] h = "CLFS" ->
            [words |-> <<"Failed", "to process", script_name(h), ":", "{e}">>,
             counts |-> <<>>]
      [] h = "DOBI" /\ e = "APIError" ->
            [words |-> <<"Failed", "to process", script_name(h), ":", "API Error", "-",
                         "{e.message}">>,
             counts |-> <<>>]
      [] h = "DOBI" /\ e # "APIError" ->
            [words |-> <<"Failed", "to process", script_name(h), ":", "{e}">>,
             counts |-> <<>>]

\* What the except clause raises: a bare raise re-raises the exception caught,
\* raise Exception(error_message) replaces it.
RaisedError(h, e) ==
    CASE h \in {"Facility", "Physician"} -> e
      [] h = "CLFS" -> "Exception(error_message)"
      [] h = "DOBI" -> IF e = "APIError" THEN e ELSE "Exception(error_message)"

\* Variant: _log_operation without its try/except.
LogOperationRaises_Propagates(sink_ok) == ~sink_ok

\* Variant: the except clause logs and returns instead of raising.
ExceptOutcome_Swallows(h) == "returned"

\* How the except clause of insert_records ends: every branch ends with raise.
ExceptOutcome(h) == "raised"

\* Whether _log_operation lets the failure of its insert escape: its
\* "except Exception" catches it.
LogOperationRaises(sink_ok) == FALSE

\* Variant: the log insert replaces what the table held.
LogAppend_Overwrites(h, message, sink_ok) ==
    IF sink_ok THEN <<[script |-> script_name(h), message |-> message]>> ELSE log

\* The log table after _log_operation(message).
LogAppend(h, message, sink_ok) ==
    IF sink_ok THEN Append(log, [script |-> script_name(h), message |-> message])
    ELSE log

\* ------------------------------------------------------------------ actions

Tables == [live |-> live, historical |-> historical, log |-> log]

\* The summary of a non-empty run that ends now with the tables as given.
Summary(p, how, liveAfter, historicalAfter, logAfter) ==
    [records |-> records[p], before |-> pre[p], outcome |-> how,
     after |-> [live |-> liveAfter, historical |-> historicalAfter, log |-> logAfter]]

\* Variant: only the URL is tested.
MissingCredentials_UrlOnly(url, key) == ~url

\* not self.supabase_url or not self.supabase_key
MissingCredentials(url, key) == ~url \/ ~key

\* The constructor of the handler of instance p: ValueError when a credential
\* is missing; otherwise create_client returns the client or raises, and the
\* constructor raises what it raised. An object whose constructor raised does
\* not exist.
__init__(p, created) ==
    /\ client[p] = "none"
    /\ init_raised[p] = "none"
    /\ IF MissingCredentials(supabase_url, supabase_key)
       THEN /\ init_raised' = [init_raised EXCEPT ![p] = "ValueError"]
            /\ UNCHANGED client
       ELSE IF created
            THEN /\ client' = [client EXCEPT ![p] = "created"]
                 /\ UNCHANGED init_raised
            ELSE /\ init_raised' = [init_raised EXCEPT ![p] = "Exception"]
                 /\ UNCHANGED client
    /\ UNCHANGED <<store, handler, supabase_url, supabase_key, pc, locals, ends, ghosts>>

\* insert_records(records) is called: the early return, or the start of the try block.
Call(p, recs) ==
    /\ pc[p] = "idle"
    /\ client[p] = "created"
    /\ records' = [records EXCEPT ![p] = recs]
    /\ existing_records' = [existing_records EXCEPT ![p] = <<>>]
    /\ records_to_archive' = [records_to_archive EXCEPT ![p] = 0]
    /\ response' = [response EXCEPT ![p] = <<>>]
    /\ error' = [error EXCEPT ![p] = "none"]
    /\ raised' = [raised EXCEPT ![p] = "none"]
    /\ failedAt' = [failedAt EXCEPT ![p] = "none"]
    /\ calls' = [calls EXCEPT ![p] = <<>>]
    /\ attempted' = [attempted EXCEPT ![p] = <<>>]
    /\ sinkFailed' = [sinkFailed EXCEPT ![p] = FALSE]
    /\ pre' = [pre EXCEPT ![p] = Tables]
    /\ IF EarlyReturn(recs)
       THEN /\ result' = [result EXCEPT ![p] = NoRecordsResult(handler[p])]
            /\ outcome' = [outcome EXCEPT ![p] = "returned"]
            /\ UNCHANGED <<pc, nrows>>
       ELSE /\ nrows' = nrows + Len(recs)
            /\ result' = [result EXCEPT ![p] = NoResult]
            /\ outcome' = [outcome EXCEPT ![p] = "running"]
            /\ pc' = [pc EXCEPT ![p] = "select"]
    /\ UNCHANGED <<store, handler, config, runs, removed, nfaults>>

\* Variant: the delete is issued before the historical insert.
StepAfter_DeleteFirst(step) ==
    CASE step = "select"  -> "delete"
      [] step = "delete"  -> "archive"
      [] step = "archive" -> "insert"
      [] step = "insert"  -> "log"

\* The order of the statements of the try block: the step that follows step.
StepAfter(step) ==
    CASE step = "select"  -> "archive"
      [] step = "archive" -> "delete"
      [] step = "delete"  -> "insert"
      [] step = "insert"  -> "log"

\* The store call a step issues: table and operation.
CallOf(step) ==
    CASE step = "select"  -> <<updated_table, "select">>
      [] step = "archive" -> <<historical_table, "insert">>
      [] step = "delete"  -> <<updated_table, "delete">>
      [] step = "insert"  -> <<updated_table, "insert">>
      [] step = "log"     -> <<logging_table, "insert">>

\* STEP 1: the select on the live table returns.
Select(p) ==
    /\ pc[p] = "select"
    /\ LET data == SortById({r \in live : InScope(handler[p], r)})
       IN  /\ existing_records' = [existing_records EXCEPT ![p] = data]
           /\ records_to_archive' = [records_to_archive EXCEPT ![p] = Len(data)]
    /\ calls' = [calls EXCEPT ![p] = Append(@, CallOf("select"))]
    /\ pc' = [pc EXCEPT ![p] = StepAfter("select")]
    /\ UNCHANGED <<store, handler, config, records, response, error, ends,
                   failedAt, attempted, sinkFailed, pre, runs, removed, nrows, nfaults>>

\* STEP 2: the rows found are inserted into the historical table without 'id'.
Archive(p) ==
    /\ pc[p] = "archive"
    /\ IF records_to_archive[p] > 0
       THEN /\ historical' = historical \o records_for_history(existing_records[p])
            /\ calls' = [calls EXCEPT ![p] = Append(@, CallOf("archive"))]
       ELSE UNCHANGED <<historical, calls>>
    /\ pc' = [pc EXCEPT ![p] = StepAfter("archive")]
    /\ UNCHANGED <<live, log, nextId, handler, config, locals, ends,
                   failedAt, attempted, sinkFailed, pre, runs, removed, nrows, nfaults>>

\* Variant: the delete has no filter.
Deleted_Everything(h, rows) == rows

\* Variant: the delete filters on the first data_type only.
Deleted_FirstTypeOnly(h, rows) == {r \in rows : r.data_type = data_types(h)[1]}

\* The rows the delete of STEP 3 removes from the live table.
Deleted(h, rows) == {r \in rows : InScope(h, r)}

\* STEP 3: the rows of the handler's data_types are deleted from the live table.
Delete(p) ==
    /\ pc[p] = "delete"
    /\ IF records_to_archive[p] > 0
       THEN /\ live' = live \ Deleted(handler[p], live)
            /\ removed' = removed \cup Deleted(handler[p], live)
            /\ calls' = [calls EXCEPT ![p] = Append(@, CallOf("delete"))]
       ELSE UNCHANGED <<live, removed, calls>>
    /\ pc' = [pc EXCEPT ![p] = StepAfter("delete")]
    /\ UNCHANGED <<historical, log, nextId, handler, config, locals, ends,
                   failedAt, attempted, sinkFailed, pre, runs, nrows, nfaults>>

\* The rows the live table stores for a list of records.
Stored(recs, first) == [i \in DOMAIN recs |-> WithId(recs[i], first + i - 1)]

\* STEP 4: the new records are inserted into the live table; the store answers
\* with returned of the rows it stored.
Insert(p, returned) ==
    /\ pc[p] = "insert"
    /\ returned \in 0..Len(records[p])
    /\ LET rows == Stored(records[p], nextId)
       IN  /\ live' = live \cup Range(rows)
           /\ response' = [response EXCEPT ![p] = SubSeq(rows, 1, returned)]
    /\ nextId' = nextId + Len(records[p])
    /\ calls' = [calls EXCEPT ![p] = Append(@, CallOf("insert"))]
    /\ pc' = [pc EXCEPT ![p] = StepAfter("insert")]
    /\ UNCHANGED <<historical, log, handler, config, records, existing_records,
                   records_to_archive, error, ends,
                   failedAt, attempted, sinkFailed, pre, runs, removed, nrows, nfaults>>

\* A store call of steps 1 to 4 raises e: control passes to the except clause.
StoreFails(p, e) ==
    /\ \/ pc[p] \in {"select", "insert"}
       \/ pc[p] \in {"archive", "delete"} /\ records_to_archive[p] > 0
    /\ nfaults < MaxFaults
    /\ nfaults' = nfaults + 1
    /\ error' = [error EXCEPT ![p] = e]
    /\ failedAt' = [failedAt EXCEPT ![p] = pc[p]]
    /\ calls' = [calls EXCEPT ![p] = Append(@, CallOf(pc[p]))]
    /\ pc' = [pc EXCEPT ![p] = "except"]
    /\ UNCHANGED <<store, handler, config, records, existing_records, records_to_archive,
                   response, ends, attempted, sinkFailed, pre, runs, removed, nrows>>

\* STEP 5: the success message is logged and the result returned.
LogAndReturn(p, sink_ok) ==
    /\ pc[p] = "log"
    /\ sink_ok \/ nfaults < MaxFaults
    /\ nfaults' = IF sink_ok THEN nfaults ELSE nfaults + 1
    /\ sinkFailed' = [sinkFailed EXCEPT ![p] = ~sink_ok]
    /\ LET h == handler[p]
           inserted == InsertedCount(h, records[p], response[p])
           message == _create_log_message(h, records_to_archive[p], inserted)
           after == LogAppend(h, message, sink_ok)
       IN  /\ log' = after
           /\ attempted' = [attempted EXCEPT ![p] = Append(@, message)]
           /\ calls' = [calls EXCEPT ![p] = Append(@, CallOf("log"))]
           /\ IF ~sink_ok /\ LogOperationRaises(sink_ok)
              THEN /\ error' = [error EXCEPT ![p] = "Exception"]
                   /\ pc' = [pc EXCEPT ![p] = "except"]
                   /\ UNCHANGED <<ends, runs>>
              ELSE /\ result' = [result EXCEPT ![p] =
                                    SuccessResult(h, inserted, records_to_archive[p])]
                   /\ outcome' = [outcome EXCEPT ![p] = "returned"]
                   /\ runs' = [runs EXCEPT ![p] =
                                  Append(@, Summary(p, "returned", live, historical, after))]
                   /\ pc' = [pc EXCEPT ![p] = "idle"]
                   /\ UNCHANGED <<raised, error>>
    /\ UNCHANGED <<live, historical, nextId, handler, config, records, existing_records,
                   records_to_archive, response, failedAt, pre, removed, nrows>>

\* The except clause: the failure message is logged and the error raised.
LogAndRaise(p, sink_ok) ==
    /\ pc[p] = "except"
    /\ sink_ok \/ nfaults < MaxFaults
    /\ nfaults' = IF sink_ok THEN nfaults ELSE nfaults + 1
    /\ sinkFailed' = [sinkFailed EXCEPT ![p] = sinkFailed[p] \/ ~sink_ok]
    /\ LET h == handler[p]
           message == FailureMessage(h, error[p])
           after == LogAppend(h, message, sink_ok)
       IN  /\ log' = after
           /\ attempted' = [attempted EXCEPT ![p] = Append(@, message)]
           /\ calls' = [calls EXCEPT ![p] = Append(@, CallOf("log"))]
           /\ raised' = [raised EXCEPT ![p] =
                            IF ~sink_ok /\ LogOperationRaises(sink_ok)
                            THEN "LogSinkError"
                            ELSE RaisedError(h, error[p])]
           /\ runs' = [runs EXCEPT ![p] =
                          Append(@, Summary(p, ExceptOutcome(h), live, historical, after))]
    /\ outcome' = [outcome EXCEPT ![p] = ExceptOutcome(handler[p])]
    /\ pc' = [pc EXCEPT ![p] = "idle"]
    /\ UNCHANGED <<live, historical, nextId, handler, config, locals, result,
                   failedAt, pre, removed, nrows>>

\* The process dies between two steps of a run.
Crash(p) ==
    /\ pc[p] # "idle"
    /\ nfaults < MaxFaults
    /\ nfaults' = nfaults + 1
    /\ outcome' = [outcome EXCEPT ![p] = "crashed"]
    /\ runs' = [runs EXCEPT ![p] = Append(@, Summary(p, "crashed", live, historical, log))]
    /\ pc' = [pc EXCEPT ![p] = "idle"]
    /\ UNCHANGED <<store, handler, config, locals, result, raised, failedAt, calls, attempted,
                   sinkFailed, pre, removed, nrows>>

\* insert_records has been called on instance p.
Called(p) == outcome[p] # "none"

\* One step of instance p.
Step(p) ==
    \/ \E created \in BOOLEAN : __init__(p, created)
    \/ \E recs \in Batches(handler[p], MaxRows - nrows) : Call(p, recs)
    \/ Select(p)
    \/ Archive(p)
    \/ Delete(p)
    \/ \E returned \in 0..MaxRows : Insert(p, returned)
    \/ \E e \in {"APIError", "Exception"} : StoreFails(p, e)
    \/ \E sink_ok \in BOOLEAN : LogAndReturn(p, sink_ok)
    \/ \E sink_ok \in BOOLEAN : LogAndRaise(p, sink_ok)
    \/ Crash(p)

\* The instance whose runs the scheduler serializes.
Serialized == {p \in Procs : \A q \in Procs : p <= q}

Next == \E p \in Serialized : Step(p)

\* One pipeline instance, its runs one after the other.
Spec == Init /\ [][Next]_vars

\* ------------------------------------------------------ vocabulary of the claims

\* The tag scope of an instance, and the rows of a table it owns.
TagScope(h) == {data_types(h)[i] : i \in DOMAIN data_types(h)}

Owned(h, rows) == {r \in rows : r.data_type \in TagScope(h)}

\* A row without its identifier.
Content(row) == [data_type |-> row.data_type, code |-> row.code]

\* The contents of a set of rows, in id order.
Contents(rows) == LET s == SortById(rows) IN [i \in DOMAIN s |-> Content(s[i])]

\* The last call on p was a run (non-empty new_records) that returned its result.
Succeeded(p) == pc[p] = "idle" /\ outcome[p] = "returned" /\ records[p] # <<>>

\* The last call on p raised.
Raised(p) == pc[p] = "idle" /\ outcome[p] = "raised"

HasCopy(table, row) == \E i \in DOMAIN table : table[i] = Content(row)

FirstWord(message) == message.words[1]

LogEntry(h, message) == [script |-> script_name(h), message |-> message]

\* ------------------------------------------------------------------- claims

\* C1: archive-before-delete. While the select and the historical insert have
\* not both returned, the live table is as it was when the run started; once a
\* row is gone from the live table the historical table already holds, after
\* what it held before, the copies of all rows found by the select; and a run
\* whose select or historical insert raised ends with the live table untouched.
C1_ArchiveBeforeDelete ==
    \A p \in Procs : Called(p) =>
        /\ pc[p] \in {"select", "archive"} => live = pre[p].live
        /\ pre[p].live \ live # {} =>
               historical = pre[p].historical
                            \o Contents(Owned(handler[p], pre[p].live))
        /\ failedAt[p] \in {"select", "archive"} => live = pre[p].live

\* A run whose historical insert raised, with rows of the scope still live.
C1_Witness ==
    \E p \in Procs :
        /\ Raised(p)
        /\ failedAt[p] = "archive"
        /\ Owned(handler[p], live) # {}

\* C2: after a run with non-empty new_records returns (no other run in
\* between), the historical table holds a copy of every row that was live under
\* the tag scope before the call, and the live rows of the scope are exactly
\* new_records.
C2_ArchiveAndReplace ==
    \A p \in Procs : Succeeded(p) =>
        /\ \A r \in Owned(handler[p], pre[p].live) : HasCopy(historical, r)
        /\ Contents(Owned(handler[p], live)) = records[p]

\* A successful run that replaced two live rows by two new ones.
C2_Witness ==
    \E p \in Procs :
        /\ Succeeded(p)
        /\ Cardinality(Owned(handler[p], pre[p].live)) = 2
        /\ Len(records[p]) = 2

\* C3: whatever the runs did and wherever they stopped (store failure or
\* crash after any step), every row removed from the live table has a copy,
\* identifier stripped, in the historical table.
C3_NoRowLost == \A r \in removed : HasCopy(historical, r)

\* A run that crashed after its delete.
C3_Witness ==
    \E p \in Procs : pc[p] = "idle" /\ outcome[p] = "crashed" /\ pre[p].live \ live # {}

\* C4: a call with empty new_records returns at once status no_records with
\* records_inserted = 0 and records_archived = 0, and leaves the live table,
\* the historical table and the log as they were.
C4_NoRecordsIsNoOp ==
    \A p \in Procs : (Called(p) /\ records[p] = <<>>) =>
        /\ pc[p] = "idle"
        /\ outcome[p] = "returned"
        /\ "status" \in DOMAIN result[p]
        /\ result[p].status = "no_records"
        /\ result[p].records_inserted = 0
        /\ result[p].records_archived = 0
        /\ Tables = pre[p]

\* An empty call after a finished run, with rows of the scope live and a log entry.
C4_Witness ==
    \E p \in Procs :
        /\ Called(p)
        /\ records[p] = <<>>
        /\ runs[p] # <<>>
        /\ Owned(handler[p], live) # {}
        /\ log # <<>>

\* C5: two successful runs one after the other with batches B1 then B2: the
\* historical table is what it held before the first run, then one copy of
\* every row live under the scope before the first run, then one copy of every
\* row of B1; the live rows of the scope are exactly B2.
C5_TwoGenerations ==
    \A p \in Procs : \A i \in 1..(Len(runs[p]) - 1) :
        LET first == runs[p][i]
            second == runs[p][i + 1]
        IN  (first.outcome = "returned" /\ second.outcome = "returned") =>
                /\ second.after.historical =
                       first.before.historical
                       \o Contents(Owned(handler[p], first.before.live))
                       \o first.records
                /\ Contents(Owned(handler[p], second.after.live)) = second.records

\* Two successful runs in a row, the first of which found rows to archive.
C5_Witness ==
    \E p \in Procs :
        /\ Len(runs[p]) = 2
        /\ runs[p][1].outcome = "returned"
        /\ runs[p][2].outcome = "returned"
        /\ Owned(handler[p], runs[p][1].before.live) # {}

\* C6: a failure of the log insert never changes how the run ends: after all
\* store calls succeeded the run returns its result, and after a store call
\* raised the run raises that failure (as caught, or wrapped in
\* Exception(error_message)), never the failure of the log.
C6_LogFailureNeverMasks ==
    \A p \in Procs : (pc[p] = "idle" /\ sinkFailed[p]) =>
        \/ outcome[p] = "crashed"
        \/ /\ failedAt[p] = "none"
           /\ outcome[p] = "returned"
           /\ result[p].records_archived = records_to_archive[p]
           /\ raised[p] = "none"
        \/ /\ failedAt[p] # "none"
           /\ outcome[p] = "raised"
           /\ raised[p] \in {error[p], "Exception(error_message)"}
           /\ error[p] \in {"APIError", "Exception"}

\* The log insert failed while a store failure was being reported.
C6_Witness ==
    \E p \in Procs : Raised(p) /\ sinkFailed[p] /\ failedAt[p] = "delete"

\* C7: a run in which the select, the historical insert, the delete or the
\* live insert raised never returns a result: it ends by raising, after
\* handing exactly one message, a failure message, to the log.
C7_StoreFailureRaises ==
    \A p \in Procs : failedAt[p] # "none" =>
        /\ outcome[p] # "returned"
        /\ result[p] = NoResult
        /\ pc[p] = "idle" /\ outcome[p] # "crashed" =>
               /\ outcome[p] = "raised"
               /\ raised[p] # "none"
               /\ Len(attempted[p]) = 1
               /\ FirstWord(attempted[p][1]) \in {"Failed", "FAILED"}
               /\ log = IF sinkFailed[p] THEN pre[p].log
                        ELSE Append(pre[p].log, LogEntry(handler[p], attempted[p][1]))

\* A run whose select raised, with its failure entry in the log.
C7_Witness ==
    \E p \in Procs :
        /\ Raised(p)
        /\ failedAt[p] = "select"
        /\ ~sinkFailed[p]
        /\ log # <<>>

\* C8 as stated: when the live insert raises, the count of the select is what
\* the run holds as records_to_archive and a log entry whose message begins
\* with "Failed" is appended before the error is raised, in every handler.
\* (Read in the claim's favour: only runs whose log insert succeeded count.)
C8_FailedPrefixEveryHandler ==
    \A p \in Procs : (Raised(p) /\ failedAt[p] = "insert" /\ ~sinkFailed[p]) =>
        /\ records_to_archive[p] = Cardinality(Owned(handler[p], pre[p].live))
        /\ log # <<>>
        /\ FirstWord(log[Len(log)].message) = "Failed"

\* C9 as stated: records_archived of every returned result is the number of
\* rows live under the tag scope when the call started, new_records empty or not.
C9_ArchivedIsLiveCountAlways ==
    \A p \in Procs : (pc[p] = "idle" /\ outcome[p] = "returned") =>
        result[p].records_archived = Cardinality(Owned(handler[p], pre[p].live))

\* C9 amended: records_archived of the result of a run with non-empty
\* new_records is the number of rows live under the tag scope when the run
\* started, whatever the live insert returned; the result of a call with empty
\* new_records reports 0, whatever the live table holds.
C9_ArchivedCount ==
    \A p \in Procs : (pc[p] = "idle" /\ outcome[p] = "returned") =>
        result[p].records_archived =
            IF records[p] = <<>> THEN 0
            ELSE Cardinality(Owned(handler[p], pre[p].live))

\* A run that found two rows and whose live insert returned no row.
C9_Witness ==
    \E p \in Procs :
        /\ Succeeded(p)
        /\ response[p] = <<>>
        /\ result[p].records_archived = 2

\* C10 as stated: records_inserted is the number of rows the live insert
\* returned when it returned rows, and len(new_records) when it returned none.
C10_ReturnedElseRequested ==
    \A p \in Procs : Succeeded(p) =>
        result[p].records_inserted =
            IF response[p] # <<>> THEN Len(response[p]) ELSE Len(records[p])

\* C10 amended: the Facility and Physician handlers report the number of rows
\* the live insert returned, 0 when it returned none; the CLFS and DOBI
\* handlers report len(new_records) whatever the live insert returned.
C10_InsertedCount ==
    \A p \in Procs : Succeeded(p) =>
        result[p].records_inserted =
            IF handler[p] \in {"Facility", "Physician"}
            THEN Len(response[p])
            ELSE Len(records[p])

\* A Facility run whose live insert stored two rows and returned none.
C10_Witness ==
    \E p \in Procs :
        /\ Succeeded(p)
        /\ handler[p] = "Facility"
        /\ Len(records[p]) = 2
        /\ response[p] = <<>>
        /\ result[p].records_inserted = 0

\* C11: every result a call returns, in every handler, carries a status that is
\* "success" or "no_records", records_inserted, records_archived and the name
\* of the live table; and the result of a completed run (non-empty
\* new_records) has status "success" and records_archived equal to the number
\* of rows the run found live under the tag scope.
C11_ResultShapeEveryHandler ==
    \A p \in Procs : (pc[p] = "idle" /\ outcome[p] = "returned") =>
        /\ {"status", "records_inserted", "records_archived", "table"}
               \subseteq DOMAIN result[p]
        /\ result[p].status \in {"success", "no_records"}
        /\ result[p].table = updated_table
        /\ records[p] # <<>> =>
               /\ result[p].status = "success"
               /\ result[p].records_archived = records_to_archive[p]

\* C12: no record of the historical table has an 'id' field, whether the row it
\* was built from had one (the rows a select returned) or not (a record that is
\* already stripped); the historical table assigns the identifier itself (the
\* position of the record in the table), so two archived copies of the same
\* live content are two records with distinct identifiers.
C12_HistoricalHasNoId ==
    /\ \A i \in DOMAIN historical : "id" \notin DOMAIN historical[i]
    /\ \A p \in Procs : \A i \in DOMAIN existing_records[p] :
           LET row == existing_records[p][i]
           IN  /\ "id" \in DOMAIN row
               /\ "id" \notin DOMAIN StripId(row)
               /\ "id" \notin DOMAIN StripId(StripId(row))
               /\ StripId(StripId(row)) = Content(row)

\* The same live content was archived twice: two historical records, at
\* distinct positions, with equal fields.
C12_Witness ==
    \E i, j \in DOMAIN historical :
        /\ 1 < i
        /\ i < j
        /\ historical[i] = historical[j]

\* ------------------------------------------------------- concurrent instances

\* The same rows under other identifiers.
Renumbered(rows, offset) == {[r EXCEPT !.id = @ + offset] : r \in rows}

\* Two instances of two different handler classes on the same three tables.
InitDisjoint ==
    /\ NotConstructed
    /\ \E h1, h2 \in Handlers :
        /\ h1 # h2
        /\ handler = [p \in Procs |-> IF p = 1 THEN h1 ELSE h2]
        /\ live \in {{ForeignRow},
                     {ForeignRow} \cup OwnRows(h1) \cup Renumbered(OwnRows(h2), 2)}
        /\ historical = <<OldHistoricalRow(h1)>>
    /\ log = <<>>
    /\ nextId = 6
    /\ pc = [p \in Procs |-> "idle"]
    /\ records = [p \in Procs |-> <<>>]
    /\ existing_records = [p \in Procs |-> <<>>]
    /\ records_to_archive = [p \in Procs |-> 0]
    /\ response = [p \in Procs |-> <<>>]
    /\ error = [p \in Procs |-> "none"]
    /\ result = [p \in Procs |-> NoResult]
    /\ outcome = [p \in Procs |-> "none"]
    /\ raised = [p \in Procs |-> "none"]
    /\ failedAt = [p \in Procs |-> "none"]
    /\ calls = [p \in Procs |-> <<>>]
    /\ attempted = [p \in Procs |-> <<>>]
    /\ sinkFailed = [p \in Procs |-> FALSE]
    /\ pre = [p \in Procs |-> Tables]
    /\ runs = [p \in Procs |-> <<>>]
    /\ removed = {}
    /\ nrows = 0
    /\ nfaults = 0

\* insert_records is called once on each instance; the store calls of the two
\* calls interleave in any order. The instance called first is numbered 1;
\* the handlers are constructed before the first call.
NextConcurrent ==
    \E p \in Procs :
        /\ client[p] = "none" => \A q \in Procs : ~Called(q)
        /\ (pc[p] = "idle" /\ client[p] = "created") =>
               ~Called(p) /\ \A q \in Procs : q < p => Called(q)
        /\ Step(p)

SpecDisjoint == InitDisjoint /\ [][NextConcurrent]_vars

\* Two instances of the same handler class, their store calls interleaved.
SpecSameScope == Init /\ [][NextConcurrent]_vars

\* The records of a table that carry a tag of the scope of h, in table order.
Scoped(h, table) == SelectSeq(table, LAMBDA r : r.data_type \in TagScope(h))

\* C13: two instances with disjoint tag scopes, their store calls interleaved
\* in any order. A run that returned left, under its own scope, what it would
\* have left running alone from the rows its scope held when it started: the
\* live rows of the scope are its new records, the historical table gained for
\* the scope exactly the copies of the rows the scope held, in order, and the
\* result carries the counts of that run; nothing the other instance did shows
\* in any of the three.
C13_DisjointScopesCommute ==
    \A p \in Procs : Succeeded(p) =>
        LET h == handler[p]
            old == Owned(h, pre[p].live)
        IN  /\ Contents(Owned(h, live)) = records[p]
            /\ Scoped(h, historical) = Scoped(h, pre[p].historical) \o Contents(old)
            /\ result[p].table = updated_table
            /\ result[p].records_archived = Cardinality(old)
            /\ result[p].records_inserted =
                   IF h \in {"Facility", "Physician"}
                   THEN Len(response[p])
                   ELSE Len(records[p])

\* Both runs returned, no fault occurred, and the second instance was called
\* while the first was between its historical insert and its delete.
C13_Witness ==
    /\ Succeeded(1)
    /\ Succeeded(2)
    /\ handler[1] # handler[2]
    /\ nfaults = 0
    /\ Len(pre[2].historical) = Len(pre[1].historical) + 2
    /\ Cardinality(Owned(handler[1], pre[2].live)) = 2
    /\ Cardinality(Owned(handler[2], pre[2].live)) = 2

\* The positions of the historical table that hold a copy of one of the rows.
Copies(table, rows) == {i \in DOMAIN table : \E r \in rows : table[i] = Content(r)}

\* A row removed from the live table of which the historical table has no copy.
Lost(r) == r \in removed /\ ~HasCopy(historical, r)

\* C14: two runs on the same tag scope, their store calls interleaved, can
\* break the archive guarantee, and only by interleaving: a row is lost only
\* when it is a row the other run inserted after the deleting run's select (the
\* delete removes by tag, not the rows selected), and the historical table
\* gains more copies than the scope had rows only when both runs issued the
\* historical insert for the rows both had selected.
C14_SameScopeCorruption ==
    /\ \A r \in removed : Lost(r) =>
           \E p, q \in Procs :
               /\ p # q
               /\ CallOf("delete") \in Range(calls[p])
               /\ r \notin Range(existing_records[p])
               /\ CallOf("insert") \in Range(calls[q])
               /\ r \notin pre[q].live
               /\ Content(r) \in Range(records[q])
    /\ Cardinality(Copies(historical, OwnRows(handler[1])))
           > Cardinality(OwnRows(handler[1])) =>
           \A p \in Procs :
               /\ CallOf("archive") \in Range(calls[p])
               /\ Range(existing_records[p]) = OwnRows(handler[p])

\* Both runs returned without any fault; each of the two rows the scope held
\* was archived twice, and the row the first run inserted was deleted by the
\* second and is in neither table.
C14_Witness ==
    /\ Succeeded(1)
    /\ Succeeded(2)
    /\ nfaults = 0
    /\ Cardinality(Copies(historical, OwnRows(handler[1])))
           = 2 * Cardinality(OwnRows(handler[1]))
    /\ \E r \in removed :
           /\ Lost(r)
           /\ Content(r) \in Range(records[1])
           /\ r \notin live
    /\ Contents(Owned(handler[2], live)) = records[2]

\* C15: no rollback. A run whose live insert raised after its delete had
\* succeeded ends with no row of its tag scope in the live table, the other
\* rows as they were, the old rows of the scope only in the historical table
\* (appended after what it held), and with no store call after the failed
\* insert other than the log insert: nothing is written back.
C15_NoRollback ==
    \A p \in Procs :
        (Raised(p) /\ failedAt[p] = "insert" /\ CallOf("delete") \in Range(calls[p])) =>
            LET h == handler[p]
                old == Owned(h, pre[p].live)
            IN  /\ old # {}
                /\ Owned(h, live) = {}
                /\ live = pre[p].live \ old
                /\ historical = pre[p].historical \o Contents(old)
                /\ calls[p] = <<CallOf("select"), CallOf("archive"), CallOf("delete"),
                                CallOf("insert"), CallOf("log")>>

\* A run that archived and deleted two rows and whose live insert raised.
C15_Witness ==
    \E p \in Procs :
        /\ Raised(p)
        /\ failedAt[p] = "insert"
        /\ Cardinality(Owned(handler[p], pre[p].live)) = 2
        /\ Owned(handler[p], live) = {}

\* C16 as stated: a run with non-empty new_records whose select returned no
\* row issues no historical insert and no delete, goes on to the live insert,
\* and returns records_archived = 0 and records_inserted = the number of new
\* records.
C16_EmptySelectInsertsAll ==
    \A p \in Procs : (Succeeded(p) /\ Owned(handler[p], pre[p].live) = {}) =>
        /\ calls[p] = <<CallOf("select"), CallOf("insert"), CallOf("log")>>
        /\ historical = pre[p].historical
        /\ Contents(Owned(handler[p], live)) = records[p]
        /\ result[p].records_archived = 0
        /\ result[p].records_inserted = Len(records[p])

\* C16 amended: such a run issues the select, the live insert and the log
\* insert and nothing else, leaves the historical table as it was, stores the
\* new records and returns records_archived = 0; records_inserted is the
\* number of new records in the CLFS and DOBI handlers, and the number of rows
\* the live insert returned in the Facility and Physician handlers (the number
\* of new records when the store returns every row it stored).
C16_EmptySelect ==
    \A p \in Procs : (Succeeded(p) /\ Owned(handler[p], pre[p].live) = {}) =>
        /\ calls[p] = <<CallOf("select"), CallOf("insert"), CallOf("log")>>
        /\ historical = pre[p].historical
        /\ Contents(Owned(handler[p], live)) = records[p]
        /\ result[p].records_archived = 0
        /\ result[p].records_inserted =
               IF handler[p] \in {"Facility", "Physician"}
               THEN Len(response[p])
               ELSE Len(records[p])
        /\ Len(response[p]) = Len(records[p]) =>
               result[p].records_inserted = Len(records[p])

\* A CLFS run on an empty scope that inserted two records.
C16_Witness ==
    \E p \in Procs :
        /\ Succeeded(p)
        /\ handler[p] = "CLFS"
        /\ Owned(handler[p], pre[p].live) = {}
        /\ Len(records[p]) = 2
        /\ result[p].records_inserted = 2
        /\ result[p].records_archived = 0

\* A call on p is past its first step: it ended by returning or raising, or it
\* is running beyond the select.
PastFirstStep(p) ==
    \/ pc[p] = "idle" /\ outcome[p] \in {"returned", "raised"}
    \/ pc[p] \notin {"idle", "select"}

\* C17 as stated: the select is the first thing every call does, before the
\* test for empty new_records, so a call with empty new_records has read the
\* live table too.
C17_SelectFirstOnEveryCall ==
    \A p \in Procs : PastFirstStep(p) =>
        /\ calls[p] # <<>>
        /\ calls[p][1] = CallOf("select")

\* C17 amended: the test for empty new_records comes first: a call with empty
\* new_records returns without any store call, the select included; a call
\* with non-empty new_records issues the select as its first store call.
C17_ShortCircuitFirst ==
    \A p \in Procs : PastFirstStep(p) =>
        IF records[p] = <<>>
        THEN calls[p] = <<>>
        ELSE calls[p] # <<>> /\ calls[p][1] = CallOf("select")

\* A call with empty new_records that returned while the live table held rows
\* of the scope, after an earlier run of the instance.
C17_Witness ==
    \E p \in Procs :
        /\ PastFirstStep(p)
        /\ records[p] = <<>>
        /\ outcome[p] = "returned"
        /\ Owned(handler[p], live) # {}
        /\ runs[p] # <<>>

\* The last call on p ended, by returning or by raising.
Ended(p) == pc[p] = "idle" /\ outcome[p] \in {"returned", "raised"}

\* C18 as stated: every call of insert_records that ended, in success or in
\* failure, appended exactly one entry to the log table when the table took
\* it, and the entry's script field is the instance's script name.
C18_OneLogEntryEveryCall ==
    \A p \in Procs : (Ended(p) /\ ~sinkFailed[p]) =>
        /\ Len(log) = Len(pre[p].log) + 1
        /\ SubSeq(log, 1, Len(pre[p].log)) = pre[p].log
        /\ log[Len(log)].script = script_name(handler[p])

\* C18 amended: a call with non-empty new_records that ended, in success or in
\* failure, made exactly one log insert, and when the log table took it the
\* table gained exactly that entry, whose script field is the instance's
\* script name; when the table refused it the table gained nothing. A call
\* with empty new_records made no log insert.
C18_OneLogEntryPerRun ==
    \A p \in Procs : Ended(p) =>
        IF records[p] = <<>>
        THEN attempted[p] = <<>> /\ log = pre[p].log
        ELSE /\ Len(attempted[p]) = 1
             /\ Len(SelectSeq(calls[p], LAMBDA c : c = CallOf("log"))) = 1
             /\ log = IF sinkFailed[p]
                      THEN pre[p].log
                      ELSE Append(pre[p].log,
                                  [script |-> script_name(handler[p]),
                                   message |-> attempted[p][1]])

\* A run that raised and one that returned, each with its entry in the log
\* table, the second after the first.
C18_Witness ==
    \E p \in Procs :
        /\ Ended(p)
        /\ outcome[p] = "returned"
        /\ records[p] # <<>>
        /\ ~sinkFailed[p]
        /\ Len(log) = 2
        /\ runs[p] # <<>>
        /\ runs[p][1].outcome = "raised"
        /\ log[1].script = script_name(handler[p])

\* C19: the message a successful run logs reads '<script>: Archived <n> old
\* records and inserted <m> new records' exactly when the run found rows live
\* under its tag scope, and '<script>: Inserted <m> new records' exactly when
\* it found none; n and m are records_archived and records_inserted of the
\* result the run returns.
C19_SuccessMessage ==
    \A p \in Procs : Succeeded(p) =>
        LET message == attempted[p][1]
            n_existing == Cardinality(Owned(handler[p], pre[p].live))
        IN  /\ attempted[p] = <<message>>
            /\ ~sinkFailed[p] => log[Len(log)] = LogEntry(handler[p], message)
            /\ n_existing > 0 <=>
                   /\ message.words = <<script_name(handler[p]), ":", "Archived", "{}",
                                        "old records", "and inserted", "{}", "new records">>
                   /\ message.counts = <<result[p].records_archived,
                                         result[p].records_inserted>>
                   /\ result[p].records_archived = n_existing
            /\ n_existing = 0 <=>
                   /\ message.words = <<script_name(handler[p]), ":", "Inserted", "{}",
                                        "new records">>
                   /\ message.counts = <<result[p].records_inserted>>
                   /\ result[p].records_archived = 0

\* Two successful runs of one instance: the first found no row and logged the
\* Inserted message, the second found the row of the first and logged the
\* Archived message.
C19_Witness ==
    \E p \in Procs :
        /\ Succeeded(p)
        /\ Len(log) = 2
        /\ log[1].message.words[3] = "Inserted"
        /\ log[1].message.counts = <<1>>
        /\ log[2].message.words[3] = "Archived"
        /\ log[2].message.counts = <<1, 1>>
        /\ result[p].records_archived = 1
        /\ result[p].records_inserted = 1

\* The instances whose tag scope holds the tag: the four handlers, and the ASC
\* pipeline, whose rows carry the tag its data processor stamps.
Owners(tag) ==
    {h \in Handlers : tag \in TagScope(h)}
        \cup (IF tag = asc_data_type THEN {"ASC"} ELSE {})

\* C20: the tag scopes of the instances are pairwise disjoint: Facility
\* USA/070/074, Physician USA/070, Medicare Lab, Facility PIP/Physician PIP
\* and Medicare Facility; so every row of the live table, whichever instance
\* wrote it, is in the scope of exactly one instance.
C20_DisjointTagScopes ==
    /\ TagScope("Facility") = {"Facility USA", "Facility 070", "Facility 074"}
    /\ TagScope("Physician") = {"Physician USA", "Physician 070"}
    /\ TagScope("CLFS") = {"Medicare Lab"}
    /\ TagScope("DOBI") = {"Facility PIP", "Physician PIP"}
    /\ asc_data_type = "Medicare Facility"
    /\ \A h1, h2 \in Handlers : h1 # h2 => TagScope(h1) \cap TagScope(h2) = {}
    /\ \A h \in Handlers : asc_data_type \notin TagScope(h)
    /\ \A r \in live : Cardinality(Owners(r.data_type)) = 1
    /\ \A p \in Procs : \A i \in DOMAIN records[p] :
           Owners(records[p][i].data_type) = {handler[p]}

\* The live table holds the rows a run of a handler wrote, two of them with
\* different tags of its scope, next to a row of the ASC pipeline.
C20_Witness ==
    \E p \in Procs :
        /\ Succeeded(p)
        /\ Cardinality(Owned(handler[p], live)) = 2
        /\ Cardinality({r.data_type : r \in Owned(handler[p], live)}) = 2
        /\ ForeignRow \in live
        /\ Owners(ForeignRow.data_type) = {"ASC"}

\* C21: when SUPABASE_URL or SUPABASE_KEY is absent, the constructor of a
\* handler raises (ValueError) and creates no client; insert_records is never
\* called on that instance and the instance issues no select, insert, delete
\* or log insert: the three tables stay as they were.
C21_MissingCredentialsFail ==
    ~(supabase_url /\ supabase_key) =>
        \A p \in Procs :
            /\ client[p] = "none"
            /\ init_raised[p] \in {"none", "ValueError"}
            /\ ~Called(p)
            /\ pc[p] = "idle"
            /\ calls[p] = <<>>
            /\ attempted[p] = <<>>
            /\ Tables = pre[p]
            /\ removed = {}

\* The constructor raised ValueError with the URL set and the key absent.
C21_Witness ==
    /\ supabase_url
    /\ ~supabase_key
    /\ init_raised[1] = "ValueError"
    /\ client[1] = "none"

\* The place of a store call in the pipeline.
CallRank(c) ==
    CASE c = <<updated_table, "select">>    -> 1
      [] c = <<historical_table, "insert">> -> 2
      [] c = <<updated_table, "delete">>    -> 3
      [] c = <<updated_table, "insert">>    -> 4
      [] c = <<logging_table, "insert">>    -> 5

\* C22: within one run with non-empty new_records the store calls come in the
\* order select, historical insert, live delete, live insert, log insert (the
\* historical insert and the delete left out together when the select found
\* nothing); a run that returned issued all of them; and the live insert comes
\* after the delete, so once the insert has returned the rows of the scope in
\* the live table are the new records, stored by this run, none of them deleted.
C22_CallOrder ==
    \A p \in Procs : (Called(p) /\ records[p] # <<>>) =>
        /\ \A i, j \in DOMAIN calls[p] :
               i < j => CallRank(calls[p][i]) < CallRank(calls[p][j])
        /\ Succeeded(p) =>
               calls[p] = IF Owned(handler[p], pre[p].live) = {}
                          THEN <<CallOf("select"), CallOf("insert"), CallOf("log")>>
                          ELSE <<CallOf("select"), CallOf("archive"), CallOf("delete"),
                                 CallOf("insert"), CallOf("log")>>
        /\ (pc[p] = "log" \/ Succeeded(p)) =>
               /\ Contents(Owned(handler[p], live)) = records[p]
               /\ Owned(handler[p], live) \cap pre[p].live = {}
               /\ Owned(handler[p], live) \cap removed = {}

\* A run that found two rows returned after its five store calls.
C22_Witness ==
    \E p \in Procs :
        /\ Succeeded(p)
        /\ Len(calls[p]) = 5
        /\ Cardinality(removed) = 2
        /\ Len(records[p]) = 2

\* The historical insert of the current or last call of p has returned.
Archived(p) == CallOf("archive") \in Range(calls[p]) /\ failedAt[p] # "archive"

\* What the historical table gained since the call of p started.
ArchiveBatch(p) == SubSeq(historical, Len(pre[p].historical) + 1, Len(historical))

\* A row of no known shape.
MalformedRow == [id |-> 7, junk |-> "x"]

\* C23: the archive batch is an exact copy of the select result: one record
\* per selected row, in order, duplicates kept, each with the fields of its row
\* other than 'id' and the same values; a record without an 'id' field (such
\* as a new record, or a record already stripped) passes unchanged, and a row
\* of any shape is copied field by field, nothing tested or dropped.
C23_ArchiveIsExactCopy ==
    /\ \A p \in Procs : Archived(p) =>
           LET batch == ArchiveBatch(p)
               existing == existing_records[p]
           IN  /\ Len(batch) = Len(existing)
               /\ Len(batch) = records_to_archive[p]
               /\ Range(existing) = Owned(handler[p], pre[p].live)
               /\ \A i \in DOMAIN existing :
                      /\ DOMAIN batch[i] = (DOMAIN existing[i]) \ {"id"}
                      /\ \A k \in DOMAIN batch[i] : batch[i][k] = existing[i][k]
                      /\ records_for_history(<<batch[i]>>) = <<batch[i]>>
    /\ \A p \in Procs : \A i \in DOMAIN records[p] :
           records_for_history(<<records[p][i]>>) = <<records[p][i]>>
    /\ records_for_history(<<MalformedRow, MalformedRow>>)
           = <<[junk |-> "x"], [junk |-> "x"]>>

\* Two selected rows with the same fields but the id were archived as two
\* equal records.
C23_Witness ==
    \E p \in Procs :
        /\ Archived(p)
        /\ Len(existing_records[p]) = 2
        /\ existing_records[p][1] # existing_records[p][2]
        /\ Len(ArchiveBatch(p)) = 2
        /\ ArchiveBatch(p)[1] = ArchiveBatch(p)[2]

\* How many times the current or last call of p issued the store call c.
Times(p, c) == Len(SelectSeq(calls[p], LAMBDA x : x = c))

\* C24: no retry. In one run each of the select, the historical insert, the
\* live delete, the live insert and the log insert is issued at most once; and
\* once one of the first four has raised, the run issues nothing more on the
\* live or the historical table: the failing call is followed by at most the
\* one log insert of the failure message.
C24_NoRetry ==
    \A p \in Procs :
        /\ \A step \in {"select", "archive", "delete", "insert", "log"} :
               Times(p, CallOf(step)) <= 1
        /\ failedAt[p] # "none" =>
               \E k \in DOMAIN calls[p] :
                   /\ calls[p][k] = CallOf(failedAt[p])
                   /\ Len(calls[p]) <= k + 1
                   /\ \A j \in DOMAIN calls[p] : j > k => calls[p][j] = CallOf("log")
                   /\ \A j \in DOMAIN calls[p] :
                          j < k => CallRank(calls[p][j]) < CallRank(calls[p][k])
        /\ (Ended(p) /\ failedAt[p] # "none") => outcome[p] = "raised"

\* A run whose delete raised: select, historical insert, delete, then only
\* the log insert, and the error raised.
C24_Witness ==
    \E p \in Procs :
        /\ Raised(p)
        /\ failedAt[p] = "delete"
        /\ calls[p] = <<CallOf("select"), CallOf("archive"), CallOf("delete"),
                        CallOf("log")>>

\* s is the beginning of t.
IsPrefix(s, t) == Len(s) <= Len(t) /\ SubSeq(t, 1, Len(s)) = s

\* C25: the historical table and the log table are append-only: every step of
\* every run, whether the run goes on to succeed, fail or crash, leaves each
\* record the two tables held in place and unmodified, and at most adds
\* records after them.
C25_AppendOnly == [][IsPrefix(historical, historical') /\ IsPrefix(log, log')]_vars

\* After a failed run and a successful one both tables have grown twice and
\* still begin with what they held.
C25_Witness ==
    \E p \in Procs :
        /\ Succeeded(p)
        /\ Len(runs[p]) = 2
        /\ runs[p][1].outcome = "raised"
        /\ Len(log) = 2
        /\ Len(historical) >= 3
        /\ historical[1] = OldHistoricalRow(handler[p])
        /\ IsPrefix(runs[p][1].after.historical, historical)
        /\ runs[p][1].after.historical # historical

\* The rows whose data_type is outside the tag scope of h.
Outside(h, rows) == {r \in rows : r.data_type \notin TagScope(h)}

\* C26: a run leaves every live row whose data_type is outside the instance's
\* tag scope as it was: at every step the rows outside the scope are those the
\* table held when the run started; the select returns rows of the scope only,
\* the rows the delete removed are rows the select returned (same filter), and
\* no row outside the scope is archived or deleted.
C26_FrameOutsideScope ==
    \A p \in Procs : Called(p) =>
        LET h == handler[p]
        IN  /\ Outside(h, live) = Outside(h, pre[p].live)
            /\ Range(existing_records[p]) \subseteq Owned(h, pre[p].live)
            /\ CallOf("select") \in Range(calls[p]) /\ failedAt[p] # "select" =>
                   Range(existing_records[p]) = Owned(h, pre[p].live)
            /\ pre[p].live \ live \subseteq Range(existing_records[p])
            /\ Outside(h, removed) = {}
            /\ \A i \in DOMAIN ArchiveBatch(p) : ArchiveBatch(p)[i].data_type \in TagScope(h)

\* A run replaced the two rows of its scope and the row of the ASC pipeline is
\* still in the live table.
C26_Witness ==
    \E p \in Procs :
        /\ Succeeded(p)
        /\ Cardinality(Owned(handler[p], pre[p].live)) = 2
        /\ Owned(handler[p], pre[p].live) \subseteq removed
        /\ Outside(handler[p], live) = {ForeignRow}
        /\ Len(ArchiveBatch(p)) = 2

\* Runs one after the other, every store call returning or raising and the
\* interpreter going on to the next statement.
SpecFair == Spec /\ WF_vars(Next)

\* The exits the last call of p took.
Outcomes(p) ==
    {o \in {"no_records", "success", "raised"} :
        \/ /\ o = "no_records"
           /\ outcome[p] = "returned"
           /\ records[p] = <<>>
           /\ result[p] # NoResult
        \/ /\ o = "success"
           /\ outcome[p] = "returned"
           /\ records[p] # <<>>
           /\ result[p] # NoResult
        \/ /\ o = "raised"
           /\ outcome[p] = "raised"
           /\ raised[p] # "none"}

\* C27: every call of insert_records that is under way comes to an end (the
\* store calls returning or raising; a killed process ends it too), and a call
\* that ended took exactly one of three exits: the no_records result, the
\* success result, or a raised error; it returned the success result only if
\* no store call of the select, historical insert, delete and live insert
\* raised, and it raised only if one of them did.
C27_Terminates ==
    /\ [](\A p \in Procs : Ended(p) =>
              /\ Cardinality(Outcomes(p)) = 1
              /\ "no_records" \in Outcomes(p) => calls[p] = <<>> /\ raised[p] = "none"
              /\ "success" \in Outcomes(p) =>
                     /\ failedAt[p] = "none"
                     /\ raised[p] = "none"
                     /\ CallOf("insert") \in Range(calls[p])
              /\ "raised" \in Outcomes(p) =>
                     /\ failedAt[p] \in {"select", "archive", "delete", "insert"}
                     /\ result[p] = NoResult)
    /\ \A p \in Procs :
           (pc[p] # "idle") ~> (pc[p] = "idle" /\ outcome[p] \in {"returned", "raised", "crashed"})

\* One instance has ended a call in each of the three ways: a run that
\* raised, a run that returned its result, and now a call with no records.
C27_Witness ==
    \E p \in Procs :
        /\ Ended(p)
        /\ Outcomes(p) = {"no_records"}
        /\ Len(runs[p]) = 2
        /\ {runs[p][1].outcome, runs[p][2].outcome} = {"raised", "returned"}

====
